---- MODULE Spec2Model ----
(***************************************************************************)
(* A model of the CUBRID session object of src/src/CUBRIDConnection.js.    *)
(*                                                                         *)
(* One step of the model is one turn of the JavaScript event loop: an API  *)
(* call made by the application, the start of a task deferred by           *)
(* ActionQueue.enqueue, a 'data' event of a socket (one complete response  *)
(* frame) or an 'error' event of a socket.  Every handler runs to          *)
(* completion inside its step, together with every callback it invokes     *)
(* synchronously.  Handlers are operators on the session record s; the     *)
(* actions at the end of the module apply them to the variables.           *)
(*                                                                         *)
(* JavaScript values that may be undefined are 1-tuples: <<>> is           *)
(* undefined, <<v>> is the value v.                                        *)
(*                                                                         *)
(* A second specification, WireSpec, follows one 'data' listener byte by   *)
(* byte while the peer sends one response frame in reads of any size, and  *)
(* decodes the frame with the packet decoders.                             *)
(***************************************************************************)
EXTENDS Integers, Sequences, FiniteSets, TLC

VARIABLES connectionOpened, connectionPending, queryPending, sessionId,
          CASInfo, autoCommitMode, connectionBrokerPort, queriesHandleList,
          socket, sockets, chains, ticks, log, calls, crashed, rx

session == <<connectionOpened, connectionPending, queryPending, sessionId,
             CASInfo, autoCommitMode, connectionBrokerPort,
             queriesHandleList, socket, sockets, chains, ticks, log, calls,
             crashed>>

vars == <<session, rx>>

----------------------------------------------------------------------------
(* Bounds of the model and the inputs the environment draws from.          *)

\* API calls the application makes in one run.
MaxCalls == 3

\* 'error' events the sockets of one run emit to a listener.
MaxErrors == 1

\* Ports the broker may announce in its rendezvous response: an invalid one
\* (not greater than 0) and the port of the CAS worker.
BrokerPorts == {0, 33001}

\* CAS info tokens a server response may carry (byte 3 bit 0 set / clear).
InitialCASInfo == <<0, 255, 255, 255>>
CasTokens == {<<0, 255, 255, 255>>, <<0, 255, 255, 254>>}

\* The session id a successful open-database response announces.
ServerSessionIds == {3}

\* Query handles the application passes to closeQuery and fetch.
Handles == {1}

\* SQL texts the application passes to query: an empty and a valid one.
SQLs == {"", "SELECT 1"}

\* The error code a server error response carries.
CAS_ER_NO_MORE_DATA == -1012

----------------------------------------------------------------------------
(* Program constants.                                                      *)

initialBrokerPort == 33000
AUTOCOMMIT_ON == "true"
AUTOCOMMIT_OFF == "false"
EVENT_ERROR == "error"
EVENT_CONNECTED == "connect"
EVENT_ENGINE_VERSION_AVAILABLE == "engine version"
EVENT_QUERY_DATA_AVAILABLE == "query data"
EVENT_FETCH_DATA_AVAILABLE == "fetch"
EVENT_FETCH_NO_MORE_DATA_AVAILABLE == "fetch done"
EVENT_SET_AUTOCOMMIT_MODE_COMPLETED == "set autocommit mode"
EVENT_COMMIT_COMPLETED == "commit"
EVENT_ROLLBACK_COMPLETED == "rollback"
EVENT_QUERY_CLOSED == "close query"
EVENT_CONNECTION_CLOSED == "close"

\* Errors are named by the ErrorMessages constant the code builds them from;
\* NoErr is JavaScript's null.
NoErr == "null"
ERROR_CONNECTION_ALREADY_PENDING == "ERROR_CONNECTION_ALREADY_PENDING"
ERROR_QUERY_ALREADY_PENDING == "ERROR_QUERY_ALREADY_PENDING"
ERROR_INPUT_VALIDATION == "ERROR_INPUT_VALIDATION"
ERROR_NEW_BROKER_PORT == "ERROR_NEW_BROKER_PORT"
ERROR_NO_ACTIVE_QUERY == "ERROR_NO_ACTIVE_QUERY"
\* The Error object a socket hands to its 'error' listeners.
SocketErr == "socket error"

Undefined == <<>>

----------------------------------------------------------------------------
(* The session record and its log.                                         *)

S == [connectionOpened |-> connectionOpened,
      connectionPending |-> connectionPending,
      queryPending |-> queryPending,
      sessionId |-> sessionId,
      CASInfo |-> CASInfo,
      autoCommitMode |-> autoCommitMode,
      connectionBrokerPort |-> connectionBrokerPort,
      queriesHandleList |-> queriesHandleList,
      socket |-> socket,
      sockets |-> sockets,
      chains |-> chains,
      ticks |-> ticks,
      log |-> log,
      calls |-> calls,
      crashed |-> crashed]

Becomes(s) ==
    /\ connectionOpened' = s.connectionOpened
    /\ connectionPending' = s.connectionPending
    /\ queryPending' = s.queryPending
    /\ sessionId' = s.sessionId
    /\ CASInfo' = s.CASInfo
    /\ autoCommitMode' = s.autoCommitMode
    /\ connectionBrokerPort' = s.connectionBrokerPort
    /\ queriesHandleList' = s.queriesHandleList
    /\ socket' = s.socket
    /\ sockets' = s.sockets
    /\ chains' = s.chains
    /\ ticks' = s.ticks
    /\ log' = s.log
    /\ calls' = s.calls
    /\ crashed' = s.crashed
    /\ rx' = rx

\* A log entry: t is "write" (a request handed to socket.write; arg is the
\* port of the socket), "recv" (a complete response frame handled by the
\* listener of operation name; arg is the id of the call the frame answers),
\* "sockerr" (an 'error' event handled by the listener of handshake step
\* name), "event" (an event emitted by the session) or "cb" (a completion
\* callback of the application invoked; arg is the id of the call whose
\* response was decoded for it, 0 when none was).  cas is the CAS info a
\* written request or a received frame carries, <<>> when it carries none;
\* h is the query handle a written request carries, 0 when it carries none;
\* m is the auto-commit mode a written request carries, "" when it carries
\* none.
Entry(t, id, name, err, arg) ==
    [t |-> t, id |-> id, name |-> name, err |-> err, arg |-> arg,
     cas |-> <<>>, h |-> 0, m |-> ""]

\* What a completion receives besides the error: the id of the call whose
\* response was decoded (0: none) and the query handle (0: none).
Res(for, h) == [for |-> for, h |-> h]
NoRes == Res(0, 0)

Log(s, e) == [s EXCEPT !.log = Append(@, e)]

\* The request written last carries the query handle h.
carrying(s, h) == [s EXCEPT !.log[Len(s.log)].h = h]

\* The request written last carries the auto-commit mode m.
setting(s, m) == [s EXCEPT !.log[Len(s.log)].m = m]

\* The entry of the listener L that handles the complete frame f.
Received(L, name, err, arg, f) ==
    [Entry("recv", L.id, name, err, arg) EXCEPT !.cas = f.casInfo]

\* Helpers._emitEvent(obj, err, errorEvent, successEvent, ...): the error
\* event when err is set, the success event otherwise.
emitEvent(s, id, err, errorEvent, successEvent) ==
    Log(s, Entry("event", id,
                 IF err # NoErr THEN errorEvent ELSE successEvent, err, 0))

\* errorCode + ':' + errorMsg of a decoded packet.
ErrorOf(pkt) ==
    IF pkt.errorCode = Undefined THEN "undefined:undefined"
    ELSE IF pkt.errorCode[1] = CAS_ER_NO_MORE_DATA
         THEN "-1012:CAS_ER_NO_MORE_DATA"
         ELSE "server error"

----------------------------------------------------------------------------
(* Sockets.  sockets holds every socket the session created; socket is the *)
(* index of self._socket.  A socket keeps its 'data' and 'error' listeners *)
(* and wire: the requests written to it that the peer has not answered;    *)
(* werr tells that a write to it failed and its 'error' event is due.      *)

Socket(kind, port, state) ==
    [kind |-> kind, port |-> port, state |-> state,
     dataL |-> <<>>, errL |-> <<>>, wire |-> <<>>, werr |-> FALSE]

\* self._socket = Net.createConnection(port, self.brokerServer)
createConnection(s, kind, port) ==
    [s EXCEPT !.sockets = Append(@, Socket(kind, port, "open")),
              !.socket = Len(s.sockets) + 1]

\* The CAS info the encoder of request req writes.  The client-info-exchange
\* request has none; OpenDatabasePacket.prototype.write is given
\* options.casInfo and writes the database, the user, the password and two
\* fillers only; every other packet writes the casInfo it is constructed
\* with, self._CASInfo.
casInfoWritten(s, req) ==
    IF req \in {"clientinfo", "opendb"} THEN <<>> ELSE s.CASInfo

\* self._socket.write(packetWriter._buffer): the request reaches the peer
\* only over a socket that is open; on any other socket the write fails.
socketWrite(s, id, req) ==
    LET k == s.socket
        sk == s.sockets[k]
        s1 == IF sk.state = "open"
              THEN [s EXCEPT !.sockets[k].wire =
                                 Append(@, [req |-> req, id |-> id])]
              ELSE [s EXCEPT !.sockets[k].werr = TRUE]
    IN Log(s1, [Entry("write", id, req, NoErr, sk.port) EXCEPT
                   !.cas = casInfoWritten(s, req)])

\* self._socket.on('data', listener) / self._socket.once('data', listener)
\* A listener closure: the operation and call it belongs to, the callback it
\* completes, whether it was registered with once, whether the packet
\* variable it decodes with has been assigned, and the handle or mode the
\* call was given.
Listener(op, id, cb) ==
    [op |-> op, id |-> id, cb |-> cb, once |-> FALSE, pkt |-> TRUE,
     h |-> 0, m |-> ""]

socketOnData(s, L) == [s EXCEPT !.sockets[s.socket].dataL = Append(@, L)]

socketOnError(s, L) == [s EXCEPT !.sockets[s.socket].errL = Append(@, L)]

\* self._socket.removeAllListeners('data')
removeAllListeners(s) == [s EXCEPT !.sockets[s.socket].dataL = <<>>]

\* self._socket.end()
socketEnd(s) == [s EXCEPT !.sockets[s.socket].state = "ended"]

\* self._socket.destroy()
socketDestroy(s) == [s EXCEPT !.sockets[s.socket].state = "destroyed"]

----------------------------------------------------------------------------
(* Response frames and their decoders.                                     *)

\* A frame as the peer sends it: len bytes in all, the first four of which
\* read as the integer L.  req and for name the request it answers.
Frame(req, for, len, L, token, code, errorCode) ==
    [req |-> req, for |-> for, len |-> len, L |-> L, casInfo |-> token,
     code |-> code, errorCode |-> errorCode, port |-> 0, sessionId |-> 0,
     handle |-> 0, tupleCount |-> 0, totalTupleCount |-> 0]

\* Helpers._getExpectedResponseLength(responseData)
getExpectedResponseLength(f) == 4 + f.L + 4

\* responseData.length === expectedResponseLength, for a frame that arrives
\* in one read.
FrameComplete(f) == f.len = getExpectedResponseLength(f)

\* ClientInfoExchangePacket.parse: the new connection port.
ClientInfoExchangePacket_parse(f) == [newConnectionPort |-> f.port]

\* OpenDatabasePacket.prototype.parse: casInfo and responseCode are always
\* read; sessionId only when the response code is not negative.  Neither the
\* constructor nor parse assigns errorCode or errorMsg.
OpenDatabasePacket_parse(f) ==
    [casInfo |-> f.casInfo,
     responseCode |-> f.code,
     sessionId |-> IF f.code < 0 THEN Undefined ELSE <<f.sessionId>>,
     errorCode |-> Undefined,
     errorMsg |-> Undefined]

\* The decoders of the other packets: the response code, and the error code
\* when the response code is negative.
AckPacket_parse(f) ==
    [casInfo |-> f.casInfo,
     responseCode |-> f.code,
     errorCode |-> IF f.code < 0 THEN <<f.errorCode>> ELSE <<0>>]

----------------------------------------------------------------------------
(* Callbacks and ActionQueue.                                              *)
(*                                                                         *)
(* A callback is the application's completion callback of call id ("app"), *)
(* the callback ActionQueue.enqueue hands to task step of chain id         *)
(* ("task"), the callback ActionQueue.while hands to the body of close()'s *)
(* loop ("while"), or the function setAutoCommitMode / beginTransaction    *)
(* wraps around the application's callback ("toggle").                     *)

AppCb(id, name) == [k |-> "app", id |-> id, name |-> name, step |-> 0]
TaskCb(c, step) == [k |-> "task", id |-> c, name |-> "", step |-> step]
WhileCb(c) == [k |-> "while", id |-> c, name |-> "", step |-> 0]
ToggleCb(id, event) == [k |-> "toggle", id |-> id, name |-> event, step |-> 0]

\* Every chain ActionQueue.enqueue is given in this file has two tasks.
NumTasks == 2

RECURSIVE Invoke(_, _, _, _)
RECURSIVE taskCallback(_, _, _, _, _)
RECURSIVE completion(_, _, _, _)
RECURSIVE whileCallback(_, _, _)
RECURSIVE closeLoop(_, _)

\* callback.call(thisArg, ...args): the callback receives args only; an
\* argument that is not passed is undefined.
call(s, cb, thisArg, args) ==
    Invoke(s, cb,
           IF Len(args) >= 1 THEN args[1] ELSE NoErr,
           IF Len(args) >= 2 THEN args[2] ELSE NoRes)

\* ActionQueue.enqueue(tasks, callback): a new chain whose first task starts
\* in a later turn.  A chain's step is the task whose callback is awaited,
\* 0 once the chain has called its completion.
enqueue(s, op, id, cb, sql) ==
    [s EXCEPT !.chains = Append(@, [op |-> op, id |-> id, cb |-> cb,
                                    step |-> 1, sql |-> sql]),
              !.ticks = Append(@, Len(s.chains) + 1)]

\* The callback of task step of chain c: an error ends the chain with its
\* completion, success starts the next task in a later turn, and success of
\* the last task calls the completion.  Each task's callback acts once.
taskCallback(s, c, step, err, r) ==
    IF s.chains[c].step # step THEN s
    ELSE IF err # NoErr
         THEN completion([s EXCEPT !.chains[c].step = 0], c, err, r)
    ELSE IF step < NumTasks
         THEN [s EXCEPT !.chains[c].step = step + 1,
                        !.ticks = Append(@, c)]
    ELSE completion([s EXCEPT !.chains[c].step = 0], c, NoErr, r)

\* connect()'s completion: function (err) { ... }
connectCompletion(s, c, err) ==
    LET ch == s.chains[c]
        s1 == [s EXCEPT !.queryPending = FALSE,
                        !.connectionPending = FALSE,
                        !.connectionOpened = (err = NoErr)]
        s2 == emitEvent(s1, ch.id, err, EVENT_ERROR, EVENT_CONNECTED)
    IN call(s2, ch.cb, "self", <<err>>)

\* query()'s completion: function (err, result, handle) { ... }
queryCompletion(s, c, err, r) ==
    LET ch == s.chains[c]
        s1 == IF err # NoErr THEN [s EXCEPT !.queryPending = FALSE] ELSE s
        s2 == emitEvent(s1, ch.id, err, EVENT_ERROR,
                        EVENT_QUERY_DATA_AVAILABLE)
    IN call(s2, ch.cb, "self", <<err, r>>)

\* The completions of getEngineVersion() and close().
plainCompletion(s, c, err, r, event) ==
    LET ch == s.chains[c]
        s1 == emitEvent(s, ch.id, err, EVENT_ERROR, event)
    IN call(s1, ch.cb, "self", <<err, r>>)

completion(s, c, err, r) ==
    CASE s.chains[c].op = "connect" -> connectCompletion(s, c, err)
      [] s.chains[c].op = "query" -> queryCompletion(s, c, err, r)
      [] s.chains[c].op = "getEngineVersion" ->
             plainCompletion(s, c, err, r, EVENT_ENGINE_VERSION_AVAILABLE)
      [] s.chains[c].op = "close" ->
             plainCompletion(s, c, err, r, EVENT_CONNECTION_CLOSED)

Invoke(s, cb, err, r) ==
    CASE cb.k = "app" -> Log(s, Entry("cb", cb.id, cb.name, err, r.for))
      [] cb.k = "task" -> taskCallback(s, cb.id, cb.step, err, r)
      [] cb.k = "while" -> whileCallback(s, cb.id, err)
      [] cb.k = "toggle" ->
             Log(emitEvent(s, cb.id, err, EVENT_ERROR, cb.name),
                 Entry("cb", cb.id, s.calls[cb.id], err, r.for))

----------------------------------------------------------------------------
(* The handshake.                                                          *)

\* CUBRIDConnection.prototype._doGetBrokerPort
doGetBrokerPort(s, id, cb) ==
    LET s1 == createConnection(s, "broker", initialBrokerPort)
        s2 == socketWrite(s1, id, "clientinfo")
        s3 == socketOnError(s2, Listener("rendezvous", id, cb))
    IN socketOnData(s3, [Listener("rendezvous", id, cb) EXCEPT !.once = TRUE])

\* CUBRIDConnection.prototype._doDatabaseLogin
doDatabaseLogin(s, id, cb) ==
    LET s1 == createConnection(s, "cas", s.connectionBrokerPort)
        s2 == socketWrite(s1, id, "opendb")
        s3 == socketOnError(s2, Listener("login", id, cb))
    IN socketOnData(s3, Listener("login", id, cb))

\* The 'error' listener of _doGetBrokerPort: callback.call(err) passes err
\* as this and no argument.  (this is the socket: the two assignments
\* before it do not reach the session.)
rendezvousError(s, L, err) ==
    call(Log(s, Entry("sockerr", L.id, "rendezvous", err, 0)),
         L.cb, err, <<>>)

\* The 'error' listener of _doDatabaseLogin: callback.call(self, err).
loginError(s, L, err) ==
    call(Log(s, Entry("sockerr", L.id, "login", err, 0)),
         L.cb, "self", <<err>>)

\* The once('data') listener of _doGetBrokerPort.
rendezvousData(s, L, f) ==
    LET newPort == ClientInfoExchangePacket_parse(f).newConnectionPort
        s1 == [s EXCEPT !.connectionBrokerPort = newPort]
        s2 == socketEnd(s1)
        s3 == Log(s2, Entry("recv", L.id, "rendezvous", NoErr, newPort))
    IN IF newPort > 0
       THEN call(s3, L.cb, "null", <<>>)
       ELSE call(s3, L.cb, ERROR_NEW_BROKER_PORT, <<>>)

\* The 'data' listener of _doDatabaseLogin.
loginData(s, L, f) ==
    IF ~FrameComplete(f) THEN s
    ELSE LET s1 == removeAllListeners(s)
             pkt == OpenDatabasePacket_parse(f)
             s2 == [s1 EXCEPT !.CASInfo = pkt.casInfo]
             errorCode == pkt.errorCode
             err == IF errorCode # <<0>> THEN ErrorOf(pkt) ELSE NoErr
             s3 == IF errorCode # <<0>> THEN s2
                   ELSE [s2 EXCEPT
                           !.sessionId = pkt.sessionId[1],
                           !.autoCommitMode =
                               IF s2.CASInfo[4] % 2 = 1
                               THEN AUTOCOMMIT_ON ELSE AUTOCOMMIT_OFF]
             s4 == Log(s3, Received(L, "login", err, f.code, f))
         IN call(s4, L.cb, "self", <<err>>)

\* connect without its test of connectionPending.
connectUnguarded(s, id, cb) ==
    enqueue([s EXCEPT !.connectionPending = TRUE], "connect", id, cb, "")

\* CUBRIDConnection.prototype.connect
connect(s, id, cb) ==
    IF s.connectionPending
    THEN call(emitEvent(s, id, ERROR_CONNECTION_ALREADY_PENDING,
                        EVENT_ERROR, "null"),
              cb, "self", <<ERROR_CONNECTION_ALREADY_PENDING>>)
    ELSE enqueue([s EXCEPT !.connectionPending = TRUE], "connect", id, cb, "")

----------------------------------------------------------------------------
(* The operations of the session.                                          *)

\* Helpers._validateInputSQLString, _validateInputTimeout,
\* _validateInputBoolean
validateInputSQLString(sql) == sql # ""
validateInputTimeout(h) == h >= 0
validateInputBoolean(m) == m \in {AUTOCOMMIT_ON, AUTOCOMMIT_OFF}

\* CUBRIDConnection.prototype.query, up to ActionQueue.enqueue
query(s, id, sql, cb) ==
    IF s.queryPending
    THEN call(emitEvent(s, id, ERROR_QUERY_ALREADY_PENDING, EVENT_ERROR,
                        "null"),
              cb, "self", <<ERROR_QUERY_ALREADY_PENDING>>)
    ELSE IF ~validateInputSQLString(sql)
    THEN call(emitEvent(s, id, ERROR_INPUT_VALIDATION, EVENT_ERROR, "null"),
              cb, "self", <<NoErr>>)
    ELSE enqueue([s EXCEPT !.queryPending = TRUE], "query", id, cb, sql)

\* The first task of query, getEngineVersion and batchExecuteNoQuery.
ensureConnected(s, c) ==
    IF s.connectionOpened = FALSE
    THEN connect(s, s.chains[c].id, TaskCb(c, 1))
    ELSE call(s, TaskCb(c, 1), "null", <<>>)

\* The second task of query (a session constructed without a cache).
executeTask(s, c) ==
    LET id == s.chains[c].id
    IN socketOnData(socketWrite(s, id, "execute"),
                    Listener("query", id, TaskCb(c, 2)))

\* The 'data' listener of query's second task.
queryData(s, L, f) ==
    IF ~FrameComplete(f) THEN s
    ELSE LET s1 == removeAllListeners(s)
             pkt == AckPacket_parse(f)
             err == IF pkt.errorCode # <<0>> THEN ErrorOf(pkt) ELSE NoErr
             s2 == IF err # NoErr THEN s1
                   ELSE [s1 EXCEPT !.queriesHandleList =
                              Append(@, [handle |-> f.handle,
                                         currentTupleCount |-> f.tupleCount,
                                         totalTupleCount |->
                                             f.totalTupleCount])]
             s3 == IF err # NoErr THEN [s2 EXCEPT !.queryPending = FALSE]
                   ELSE s2
             s4 == Log(s3, Received(L, "query", err, f.for, f))
         IN call(s4, L.cb, "self", <<err, Res(f.for, f.handle)>>)

\* The second task of getEngineVersion.
engineVersionTask(s, c) ==
    LET id == s.chains[c].id
    IN socketOnData(socketWrite(s, id, "getEngineVersion"),
                    Listener("getEngineVersion", id, TaskCb(c, 2)))

\* The 'data' listener of getEngineVersion's second task.
engineVersionData(s, L, f) ==
    IF ~FrameComplete(f) THEN s
    ELSE LET s1 == removeAllListeners(s)
             pkt == AckPacket_parse(f)
             err == IF pkt.errorCode # <<0>> THEN ErrorOf(pkt) ELSE NoErr
             s2 == Log(s1, Received(L, "getEngineVersion", err,
                                 f.for, f))
         IN call(s2, L.cb, "self", <<err, Res(f.for, 0)>>)

\* The handle list without its first entry for handle h (the loop and
\* splice of closeQuery).
RECURSIVE spliceHandle(_, _)
spliceHandle(list, h) ==
    IF list = <<>> THEN <<>>
    ELSE IF Head(list).handle = h THEN Tail(list)
    ELSE <<Head(list)>> \o spliceHandle(Tail(list), h)

\* CUBRIDConnection.prototype.closeQuery
closeQuery(s, id, h, cb) ==
    IF ~validateInputTimeout(h)
    THEN call(emitEvent(s, id, ERROR_INPUT_VALIDATION, EVENT_ERROR, "null"),
              cb, "self", <<NoErr>>)
    ELSE LET s1 == [s EXCEPT !.queryPending = FALSE,
                             !.queriesHandleList = spliceHandle(@, h)]
             s2 == carrying(socketWrite(s1, id, "closeQuery"), h)
         IN socketOnData(s2, [Listener("closeQuery", id, cb) EXCEPT !.h = h])

\* The 'data' listener of closeQuery.
closeQueryData(s, L, f) ==
    IF ~FrameComplete(f) THEN s
    ELSE LET s1 == removeAllListeners(s)
             pkt == AckPacket_parse(f)
             err == IF pkt.errorCode # <<0>> THEN ErrorOf(pkt) ELSE NoErr
             s2 == Log(s1, Received(L, "closeQuery", err, f.for, f))
             s3 == emitEvent(s2, L.id, err, EVENT_ERROR, EVENT_QUERY_CLOSED)
         IN call(s3, L.cb, "self", <<err, Res(f.for, 0)>>)

\* The least index of the handle list whose entry has handle h, one past
\* the end of the list when there is none (the loop of fetch).
RECURSIVE indexOfHandle(_, _)
indexOfHandle(list, h) ==
    IF list = <<>> \/ Head(list).handle = h THEN 1
    ELSE 1 + indexOfHandle(Tail(list), h)

\* FetchPacket.prototype.parse: a response code other than 0 is an error
\* response, whose error code is read; errorCode is 0 otherwise.
FetchPacket_parse(f) ==
    [casInfo |-> f.casInfo,
     responseCode |-> f.code,
     errorCode |-> IF f.code # 0 THEN <<f.errorCode>> ELSE <<0>>,
     tupleCount |-> IF f.code # 0 THEN 0 ELSE f.tupleCount]

\* fetch without its test that the handle was found.
fetchUnchecked(s, id, h, cb) ==
    socketWrite(socketOnData(s, [Listener("fetch", id, cb) EXCEPT !.h = 1]),
                id, "fetch")

\* CUBRIDConnection.prototype.fetch: the 'data' listener is registered
\* before the handle is looked up; it reads the index i the loop ends with,
\* kept in the field h of the listener.
fetch(s, id, h, cb) ==
    LET i == indexOfHandle(s.queriesHandleList, h)
        s1 == socketOnData(s, [Listener("fetch", id, cb) EXCEPT !.h = i])
    IN IF i > Len(s.queriesHandleList)
       THEN call(emitEvent(removeAllListeners(s1), id, ERROR_NO_ACTIVE_QUERY,
                           EVENT_ERROR, "null"),
                 cb, "self", <<ERROR_NO_ACTIVE_QUERY, NoRes>>)
       ELSE IF s.queriesHandleList[i].currentTupleCount
                   = s.queriesHandleList[i].totalTupleCount
       THEN call(emitEvent(removeAllListeners(s1), id, NoErr, "null",
                           EVENT_FETCH_NO_MORE_DATA_AVAILABLE),
                 cb, "self", <<NoErr, NoRes>>)
       ELSE carrying(socketWrite(s1, id, "fetch"), h)

\* The 'data' listener of fetch: the response is decoded into the entry the
\* handle list has, when the response arrives, at the index fetch found;
\* without an entry there the decoding of a success response throws.
fetchData(s, L, f) ==
    IF ~FrameComplete(f) THEN s
    ELSE LET s1 == removeAllListeners(s)
             i == L.h
             pkt == FetchPacket_parse(f)
             err == IF pkt.errorCode # <<0>> THEN ErrorOf(pkt) ELSE NoErr
             s2 == IF err # NoErr THEN s1
                   ELSE [s1 EXCEPT
                           !.queriesHandleList[i].currentTupleCount =
                               @ + pkt.tupleCount]
             s3 == Log(s2, Received(L, "fetch", err, f.for, f))
             s4 == emitEvent(s3, L.id, err, EVENT_ERROR,
                             EVENT_FETCH_DATA_AVAILABLE)
         IN IF err = NoErr /\ i > Len(s.queriesHandleList)
            THEN [s1 EXCEPT !.crashed = TRUE]
            ELSE call(s4, L.cb, "self", <<err, Res(f.for, 0)>>)

\* CUBRIDConnection.prototype.rollback
rollback(s, id, cb) ==
    LET s1 == IF s.autoCommitMode = AUTOCOMMIT_OFF
              THEN socketWrite(s, id, "rollback")
              ELSE call(emitEvent(removeAllListeners(s), id, NoErr,
                                  EVENT_ERROR, "null"),
                        cb, "self", <<NoErr>>)
    IN socketOnData(s1, [Listener("rollback", id, cb) EXCEPT
                           !.pkt = (s.autoCommitMode = AUTOCOMMIT_OFF)])

\* The 'data' listener of rollback: rollbackPacket is undefined when
\* rollback wrote nothing, and rollbackPacket.parse then throws.
rollbackData(s, L, f) ==
    IF ~FrameComplete(f) THEN s
    ELSE LET s1 == removeAllListeners(s)
             pkt == AckPacket_parse(f)
             err == IF pkt.errorCode # <<0>> THEN ErrorOf(pkt) ELSE NoErr
             s2 == Log(s1, Received(L, "rollback", err, f.for, f))
             s3 == emitEvent(s2, L.id, err, EVENT_ERROR,
                             EVENT_ROLLBACK_COMPLETED)
         IN IF ~L.pkt THEN [s1 EXCEPT !.crashed = TRUE]
            ELSE call(s3, L.cb, "self", <<err, Res(f.for, 0)>>)

\* CUBRIDConnection.prototype.close, up to ActionQueue.enqueue
close(s, id, cb) ==
    enqueue([s EXCEPT !.queryPending = FALSE,
                      !.connectionPending = FALSE,
                      !.connectionOpened = FALSE],
            "close", id, cb, "")

\* The callback of ActionQueue.while in close's first task: the error is
\* logged and the chain goes on, cb.call(null).
whileDone(s, c, err) == call(s, TaskCb(c, 1), "null", <<>>)

\* ActionQueue.while(test, fn, callback) in close's first task: while the
\* handle list has a first entry, closeQuery of it; an error ends the loop.
closeLoop(s, c) ==
    IF s.queriesHandleList # <<>>
    THEN closeQuery(s, s.chains[c].id, s.queriesHandleList[1].handle,
                    WhileCb(c))
    ELSE whileDone(s, c, NoErr)

whileCallback(s, c, err) ==
    IF err # NoErr THEN whileDone(s, c, err) ELSE closeLoop(s, c)

\* The second task of close.
closeDatabaseTask(s, c) ==
    LET id == s.chains[c].id
    IN socketOnData(socketWrite(s, id, "closeDatabase"),
                    Listener("close", id, TaskCb(c, 2)))

\* The 'data' listener of close's second task.
closeData(s, L, f) ==
    IF ~FrameComplete(f) THEN s
    ELSE LET s1 == socketDestroy(removeAllListeners(s))
             pkt == AckPacket_parse(f)
             err == IF pkt.errorCode # <<0>> THEN ErrorOf(pkt) ELSE NoErr
             s2 == Log(s1, Received(L, "close", err, f.for, f))
         IN call(s2, L.cb, "self", <<err, Res(f.for, 0)>>)

\* CUBRIDConnection.prototype.commit
commit(s, id, cb) ==
    LET s1 == IF s.autoCommitMode = AUTOCOMMIT_OFF
              THEN socketWrite(s, id, "commit")
              ELSE call(emitEvent(removeAllListeners(s), id, NoErr,
                                  EVENT_ERROR, "null"),
                        cb, "self", <<NoErr>>)
    IN socketOnData(s1, [Listener("commit", id, cb) EXCEPT
                           !.pkt = (s.autoCommitMode = AUTOCOMMIT_OFF)])

\* The 'data' listener of commit: commitPacket is undefined when commit
\* wrote nothing, and commitPacket.parse then throws.
commitData(s, L, f) ==
    IF ~FrameComplete(f) THEN s
    ELSE LET s1 == removeAllListeners(s)
             pkt == AckPacket_parse(f)
             err == IF pkt.errorCode # <<0>> THEN ErrorOf(pkt) ELSE NoErr
             s2 == Log(s1, Received(L, "commit", err, f.for, f))
             s3 == emitEvent(s2, L.id, err, EVENT_ERROR,
                             EVENT_COMMIT_COMPLETED)
         IN IF ~L.pkt THEN [s1 EXCEPT !.crashed = TRUE]
            ELSE call(s3, L.cb, "self", <<err, Res(f.for, 0)>>)

\* _toggleAutoCommitMode without the test of the current mode: a valid mode
\* is always sent.
toggleAlways(s, id, m, cb) ==
    IF ~validateInputBoolean(m)
    THEN call(emitEvent(s, id, ERROR_INPUT_VALIDATION, EVENT_ERROR, "null"),
              cb, "self", <<NoErr>>)
    ELSE socketOnData(setting(socketWrite(s, id, "setAutoCommitMode"), m),
                      [Listener("setAutoCommitMode", id, cb) EXCEPT !.m = m])

\* _toggleAutoCommitMode(self, autoCommitMode, callback).  Its callers,
\* setAutoCommitMode and beginTransaction, always pass a function of their
\* own, whether or not the application passed a callback, so a call with
\* the current mode always returns after the callback.
toggleAutoCommitMode(s, id, m, cb) ==
    IF ~validateInputBoolean(m)
    THEN call(emitEvent(s, id, ERROR_INPUT_VALIDATION, EVENT_ERROR, "null"),
              cb, "self", <<NoErr>>)
    ELSE IF s.autoCommitMode = m
    THEN call(s, cb, "self", <<NoErr>>)
    ELSE socketOnData(setting(socketWrite(s, id, "setAutoCommitMode"), m),
                      [Listener("setAutoCommitMode", id, cb) EXCEPT !.m = m])

\* CUBRIDConnection.prototype.setAutoCommitMode
setAutoCommitMode(s, id, m) ==
    toggleAutoCommitMode(s, id, m,
                         ToggleCb(id, EVENT_SET_AUTOCOMMIT_MODE_COMPLETED))

\* The 'data' listener of _toggleAutoCommitMode.
toggleData(s, L, f) ==
    IF ~FrameComplete(f) THEN s
    ELSE LET s1 == removeAllListeners(s)
             pkt == AckPacket_parse(f)
             err == IF pkt.errorCode # <<0>> THEN ErrorOf(pkt) ELSE NoErr
             s2 == IF err # NoErr THEN s1
                   ELSE [s1 EXCEPT !.autoCommitMode = L.m]
             s3 == Log(s2, Received(L, "setAutoCommitMode", err,
                                 f.for, f))
         IN call(s3, L.cb, "self", <<err, Res(f.for, 0)>>)

----------------------------------------------------------------------------
(* The event loop.                                                         *)

\* The task of chain c that ActionQueue starts: the closure at position
\* chains[c].step of the list the chain was enqueued with.
task(s, c) ==
    LET ch == s.chains[c]
    IN CASE ch.op = "connect" /\ ch.step = 1 ->
                doGetBrokerPort(s, ch.id, TaskCb(c, 1))
         [] ch.op = "connect" /\ ch.step = 2 ->
                doDatabaseLogin(s, ch.id, TaskCb(c, 2))
         [] ch.op \in {"query", "getEngineVersion"} /\ ch.step = 1 ->
                ensureConnected(s, c)
         [] ch.op = "query" /\ ch.step = 2 -> executeTask(s, c)
         [] ch.op = "getEngineVersion" /\ ch.step = 2 ->
                engineVersionTask(s, c)
         [] ch.op = "close" /\ ch.step = 1 -> closeLoop(s, c)
         [] ch.op = "close" /\ ch.step = 2 -> closeDatabaseTask(s, c)

\* One 'data' listener called with frame f.
onData(s, L, f) ==
    CASE L.op = "rendezvous" -> rendezvousData(s, L, f)
      [] L.op = "login" -> loginData(s, L, f)
      [] L.op = "query" -> queryData(s, L, f)
      [] L.op = "getEngineVersion" -> engineVersionData(s, L, f)
      [] L.op = "closeQuery" -> closeQueryData(s, L, f)
      [] L.op = "close" -> closeData(s, L, f)
      [] L.op = "commit" -> commitData(s, L, f)
      [] L.op = "rollback" -> rollbackData(s, L, f)
      [] L.op = "fetch" -> fetchData(s, L, f)
      [] L.op = "setAutoCommitMode" -> toggleData(s, L, f)

\* One 'error' listener called with err.
onError(s, L, err) ==
    CASE L.op = "rendezvous" -> rendezvousError(s, L, err)
      [] L.op = "login" -> loginError(s, L, err)

\* EventEmitter.emit: the listeners registered when the event is emitted
\* are called in the order of their registration, also those a listener
\* called before them has removed; an exception ends the process.
RECURSIVE emitData(_, _, _)
emitData(s, Ls, f) ==
    IF Ls = <<>> \/ s.crashed THEN s
    ELSE emitData(onData(s, Head(Ls), f), Tail(Ls), f)

RECURSIVE emitError(_, _, _)
emitError(s, Ls, err) ==
    IF Ls = <<>> \/ s.crashed THEN s
    ELSE emitError(onError(s, Head(Ls), err), Tail(Ls), err)

\* Socket k receives frame f, the answer to the first request of its wire:
\* a listener registered with once is removed before it is called.
socketData(s, k, f) ==
    LET Ls == s.sockets[k].dataL
        s1 == [s EXCEPT !.sockets[k].wire = Tail(@),
                        !.sockets[k].dataL =
                            SelectSeq(@, LAMBDA L : ~L.once)]
    IN emitData(s1, Ls, f)

\* Socket k fails: it is closed and its 'error' listeners are called; an
\* 'error' event without a listener is thrown.
socketError(s, k, err) ==
    LET s1 == [s EXCEPT !.sockets[k].state = "closed",
                        !.sockets[k].werr = FALSE]
    IN IF s.sockets[k].errL = <<>> THEN [s1 EXCEPT !.crashed = TRUE]
       ELSE emitError(s1, s.sockets[k].errL, err)

----------------------------------------------------------------------------
(* The state machine.                                                      *)

\* new CUBRIDConnection(...) without a cache timeout
NewSession ==
    /\ connectionOpened = FALSE
    /\ connectionPending = FALSE
    /\ queryPending = FALSE
    /\ sessionId = 0
    /\ CASInfo = InitialCASInfo
    /\ autoCommitMode = "null"
    /\ connectionBrokerPort = -1
    /\ queriesHandleList = <<>>
    /\ socket = 1
    /\ sockets = <<Socket("init", 0, "unconnected")>>
    /\ chains = <<>>
    /\ ticks = <<>>
    /\ log = <<>>
    /\ calls = <<>>
    /\ crashed = FALSE

\* A new session; its response frames arrive in one read each.
Init == NewSession /\ rx = <<>>

\* The application may make one more call; the call gets the next id.
CanCall == Len(calls) < MaxCalls /\ ~crashed
NextId == Len(calls) + 1
Called(op) == [S EXCEPT !.calls = Append(@, op)]

Connect ==
    /\ CanCall
    /\ Becomes(connect(Called("connect"), NextId, AppCb(NextId, "connect")))

Query(sql) ==
    /\ CanCall
    /\ Becomes(query(Called("query"), NextId, sql, AppCb(NextId, "query")))

GetEngineVersion ==
    /\ CanCall
    /\ Becomes(enqueue(Called("getEngineVersion"), "getEngineVersion",
                       NextId, AppCb(NextId, "getEngineVersion"), ""))

CloseQuery(h) ==
    /\ CanCall
    /\ Becomes(closeQuery(Called("closeQuery"), NextId, h,
                          AppCb(NextId, "closeQuery")))

Close ==
    /\ CanCall
    /\ Becomes(close(Called("close"), NextId, AppCb(NextId, "close")))

Commit ==
    /\ CanCall
    /\ Becomes(commit(Called("commit"), NextId, AppCb(NextId, "commit")))

Rollback ==
    /\ CanCall
    /\ Becomes(rollback(Called("rollback"), NextId,
                        AppCb(NextId, "rollback")))

Fetch(h) ==
    /\ CanCall
    /\ Becomes(fetch(Called("fetch"), NextId, h, AppCb(NextId, "fetch")))

SetAutoCommitMode(m) ==
    /\ CanCall
    /\ Becomes(setAutoCommitMode(Called("setAutoCommitMode"), NextId, m))

\* ActionQueue starts the task that was deferred first.
RunTask ==
    /\ ~crashed
    /\ ticks # <<>>
    /\ Becomes(task([S EXCEPT !.ticks = Tail(@)], Head(ticks)))

\* The broker answers the client-info-exchange request with 4 bytes: a port.
BrokerData(k, port) ==
    /\ ~crashed
    /\ sockets[k].kind = "broker"
    /\ sockets[k].state = "open"
    /\ sockets[k].wire # <<>>
    /\ Head(sockets[k].wire).req = "clientinfo"
    /\ Becomes(socketData(S, k,
           [Frame("clientinfo", Head(sockets[k].wire).id, 4, port,
                  InitialCASInfo, 0, 0) EXCEPT !.port = port]))

\* The payload length the header of a response frame announces.
PayloadLength == 8

\* The CAS worker answers the first request on the wire of socket k with a
\* complete frame: a success (code 0) or an error response (code -1).
CasData(k, code, token, sid, h) ==
    /\ ~crashed
    /\ sockets[k].kind = "cas"
    /\ sockets[k].port > 0
    /\ sockets[k].state = "open"
    /\ sockets[k].wire # <<>>
    /\ LET r == Head(sockets[k].wire)
       IN Becomes(socketData(S, k,
              [Frame(r.req, r.id, 4 + PayloadLength + 4, PayloadLength,
                     token, code,
                     IF code < 0 THEN CAS_ER_NO_MORE_DATA ELSE 0)
               EXCEPT !.sessionId = IF r.req = "opendb" THEN sid ELSE 0,
                      !.handle = IF r.req = "execute" THEN h ELSE 0,
                      !.tupleCount =
                          IF r.req \in {"execute", "fetch"} THEN 1 ELSE 0,
                      !.totalTupleCount =
                          IF r.req = "execute" THEN 2 ELSE 0]))

\* The 'error' events the sockets have emitted to a listener.
Errors == Cardinality({i \in DOMAIN log : log[i].t = "sockerr"})

\* A socket the session connected, or one a write to which failed, emits
\* 'error'.
SocketError(k) ==
    /\ ~crashed
    /\ Errors < MaxErrors
    /\ sockets[k].state = "open" \/ sockets[k].werr
    /\ Becomes(socketError(S, k, SocketErr))

Next ==
    \/ Connect
    \/ \E sql \in SQLs : Query(sql)
    \/ GetEngineVersion
    \/ \E h \in Handles : CloseQuery(h)
    \/ Close
    \/ Commit
    \/ Rollback
    \/ \E h \in Handles : Fetch(h)
    \/ \E m \in {AUTOCOMMIT_ON, AUTOCOMMIT_OFF, "maybe"} : SetAutoCommitMode(m)
    \/ RunTask
    \/ \E k \in DOMAIN sockets, port \in BrokerPorts : BrokerData(k, port)
    \/ \E k \in DOMAIN sockets, code \in {0, -1}, token \in CasTokens,
          sid \in ServerSessionIds, h \in Handles :
           CasData(k, code, token, sid, h)
    \/ \E k \in DOMAIN sockets : SocketError(k)

Spec == Init /\ [][Next]_vars

----------------------------------------------------------------------------
(* Response frames as bytes.                                               *)
(*                                                                         *)
(* rx is the 'data' listener of one operation and the response frame the   *)
(* peer sends to it: the bytes of the request the operation wrote (those   *)
(* of close; <<>> for the operations whose encoders are not followed), the *)
(* fields the peer encoded (response), the bytes of                        *)
(* the frame, how many of them have been read (sent), the closure          *)
(* variables responseData and expectedResponseLength, the packet the       *)
(* listener decodes into, the buffer it handed to the PacketReader, how    *)
(* often it completed, whether it threw, and whether the application has   *)
(* assigned to a field of packet.brokerInfo.                               *)

\* DATA_TYPES.DATA_LENGTH_SIZEOF, CAS_INFO_SIZE, INT_SIZEOF and
\* BROKER_INFO_SIZEOF
DATA_LENGTH_SIZEOF == 4
CAS_INFO_SIZE == 4
INT_SIZEOF == 4
BROKER_INFO_SIZEOF == 8

\* self._INVALID_RESPONSE_LENGTH
INVALID_RESPONSE_LENGTH == -1

\* The operations whose 'data' listener is followed.
WireOps ==
    {"login", "getEngineVersion", "batchExecuteNoQuery", "query", "fetch",
     "closeQuery", "close", "commit", "rollback", "setAutoCommitMode"}

\* The listeners that hand the assembled responseData to the PacketReader;
\* the others hand it data, the bytes of the last read.
AssembledOps == {"login", "query", "fetch"}

\* What the peer answers with: response codes, the error code and error
\* messages of an error response (empty, "x"), the broker info and session
\* ids of an open-database response, the tuple counts of a fetch response.
ResponseCodes == {-1, 0, 3}
ErrorMessages == {<<>>, <<120>>}
BrokerInfos == {<<5, 5, 5, 5, 5, 5, 5, 5>>, <<2, 1, 0, 0, 66, 192, 0, 0>>}
WireSessionIds == {3, 258}
TupleCounts == {0, 2}

\* A signed 32-bit integer as the peer writes it: four bytes, big-endian,
\* two's complement.
Int32BE(n) ==
    LET u == IF n >= 0 THEN n ELSE -(n + 1)
        b == <<u \div 16777216, (u \div 65536) % 256, (u \div 256) % 256,
               u % 256>>
    IN IF n >= 0 THEN b ELSE [i \in 1..4 |-> 255 - b[i]]

\* The responses to operation op: an error response has a negative code, an
\* error code and an error message; any other response has the fields of
\* the operation.
Responses(op) ==
    [casInfo : CasTokens,
     code : {c \in ResponseCodes : c < 0},
     errorCode : {CAS_ER_NO_MORE_DATA},
     errorMsg : ErrorMessages,
     brokerInfo : {<<>>}, sessionId : {0}, tupleCount : {0}]
    \cup
    [casInfo : CasTokens,
     code : {c \in ResponseCodes : c >= 0},
     errorCode : {0},
     errorMsg : {<<>>},
     brokerInfo : IF op = "login" THEN BrokerInfos ELSE {<<>>},
     sessionId : IF op = "login" THEN WireSessionIds ELSE {0},
     tupleCount : IF op = "fetch" THEN TupleCounts ELSE {0}]

\* The body of response r to operation op: the response code, then the
\* error code and the null-terminated error message when the code is
\* negative, the fields of the operation otherwise.
Body(op, r) ==
    Int32BE(r.code) \o
    (IF r.code < 0 THEN Int32BE(r.errorCode) \o r.errorMsg \o <<0>>
     ELSE IF op = "login" THEN r.brokerInfo \o Int32BE(r.sessionId)
     ELSE IF op = "fetch" THEN Int32BE(r.tupleCount)
     ELSE <<>>)

\* The frame of response r: the length of the body, the CAS info, the body.
Encode(op, r) == Int32BE(Len(Body(op, r))) \o r.casInfo \o Body(op, r)

\* PacketReader: the byte at position i of buffer b, read as 0 past the
\* end of the buffer by a reader that does not check its reads.
byteAt(b, i) == IF i \in DOMAIN b THEN b[i] ELSE 0

\* parser._parseInt() at position p
parseInt(b, p) ==
    LET b1 == byteAt(b, p)
    IN (IF b1 >= 128 THEN b1 - 256 ELSE b1) * 16777216
       + byteAt(b, p + 1) * 65536 + byteAt(b, p + 2) * 256
       + byteAt(b, p + 3)

\* parser._parseBytes(n) at position p
parseBytes(b, p, n) == [i \in 1..n |-> byteAt(b, p + i - 1)]

RECURSIVE untilNull(_)
untilNull(bs) ==
    IF bs = <<>> \/ Head(bs) = 0 THEN <<>>
    ELSE <<Head(bs)>> \o untilNull(Tail(bs))

\* parser._parseNullTerminatedString(n) at position p
parseNullTerminatedString(b, p, n) ==
    LET last == IF p + n - 1 > Len(b) THEN Len(b) ELSE p + n - 1
    IN IF p > Len(b) THEN <<>> ELSE untilNull(SubSeq(b, p, last))

\* ErrorMessages.CASErrorMsgId (two of its rows)
CASErrorMsgId ==
    <<<<"CAS_ER_DBMS", -1000>>, <<"CAS_ER_NO_MORE_DATA", -1012>>>>

\* Helpers._resolveErrorCode(errorCode): the name of the error code.
resolveErrorCode(errorCode) ==
    IF \E i \in DOMAIN CASErrorMsgId : CASErrorMsgId[i][2] = errorCode
    THEN (CHOOSE row \in {CASErrorMsgId[i] : i \in DOMAIN CASErrorMsgId} :
              row[2] = errorCode)[1]
    ELSE ""

\* An error message: the text the frame carries, or the name it was
\* replaced by.
Msg(text, name) == [text |-> text, name |-> name]

\* this.errorMsg after: if (this.errorMsg.length == 0) { this.errorMsg =
\* Helpers._resolveErrorCode(this.errorCode); }
resolved(text, errorCode) ==
    IF Len(text) = 0 THEN Msg(<<>>, resolveErrorCode(errorCode))
    ELSE Msg(text, "")

\* The packet the listener of op decodes into, as its constructor leaves
\* it: OpenDatabasePacket keeps its options only, the others set casInfo,
\* responseCode, errorCode and errorMsg.
NewPacket(op) ==
    IF op = "login"
    THEN [casInfo |-> Undefined, responseCode |-> Undefined,
          errorCode |-> Undefined, errorMsg |-> Undefined,
          brokerInfo |-> Undefined, sessionId |-> Undefined,
          tupleCount |-> Undefined]
    ELSE [casInfo |-> <<InitialCASInfo>>, responseCode |-> <<0>>,
          errorCode |-> <<0>>, errorMsg |-> <<Msg(<<>>, "")>>,
          brokerInfo |-> Undefined, sessionId |-> Undefined,
          tupleCount |-> Undefined]

\* CAS.getProtocolVersion(version): a function of the byte, not given.
getProtocolVersion(version) == <<"protocolVersion", version>>

\* Object.freeze({dbType, protocolVersion, statementPolling})
freeze(obj) == [obj EXCEPT !.frozen = TRUE]

\* obj.dbType = v: an assignment to a field of a frozen object changes
\* nothing.
assignDbType(obj, v) == IF obj.frozen THEN obj ELSE [obj EXCEPT !.dbType = v]

\* OpenDatabasePacket.prototype.parse with the broker info taken from the
\* wrong bytes.
OpenDatabasePacket_shifted(pkt, b) ==
    LET responseCode == parseInt(b, 9)
        p1 == [pkt EXCEPT !.casInfo = <<parseBytes(b, 5, CAS_INFO_SIZE)>>,
                          !.responseCode = <<responseCode>>]
        brokerInfo == parseBytes(b, 13, BROKER_INFO_SIZEOF)
    IN IF responseCode < 0 THEN p1
       ELSE [p1 EXCEPT
               !.brokerInfo =
                   <<freeze([dbType |-> brokerInfo[2],
                             protocolVersion |->
                                 getProtocolVersion(brokerInfo[5]),
                             statementPolling |-> brokerInfo[3],
                             frozen |-> FALSE])>>,
               !.sessionId = <<parseInt(b, 21)>>]

\* OpenDatabasePacket.prototype.parse on the bytes of buffer b.
OpenDatabasePacket_decode(pkt, b) ==
    LET responseCode == parseInt(b, 9)
        p1 == [pkt EXCEPT !.casInfo = <<parseBytes(b, 5, CAS_INFO_SIZE)>>,
                          !.responseCode = <<responseCode>>]
        brokerInfo == parseBytes(b, 13, BROKER_INFO_SIZEOF)
    IN IF responseCode < 0 THEN p1
       ELSE [p1 EXCEPT
               !.brokerInfo =
                   <<freeze([dbType |-> brokerInfo[1],
                             protocolVersion |->
                                 getProtocolVersion(brokerInfo[5]),
                             statementPolling |-> brokerInfo[3],
                             frozen |-> FALSE])>>,
               !.sessionId = <<parseInt(b, 21)>>]

\* FetchPacket.prototype.parse on the bytes of buffer b (the rows
\* queryHandle._getData reads are left out).
FetchPacket_decode(pkt, b) ==
    LET responseLength == parseInt(b, 1)
        responseCode == parseInt(b, 9)
        p1 == [pkt EXCEPT !.casInfo = <<parseBytes(b, 5, CAS_INFO_SIZE)>>,
                          !.responseCode = <<responseCode>>]
        errorCode == parseInt(b, 13)
        text == parseNullTerminatedString(b, 17,
                                          responseLength - 2 * INT_SIZEOF)
    IN IF responseCode # 0
       THEN [p1 EXCEPT !.errorCode = <<errorCode>>,
                       !.errorMsg = <<resolved(text, errorCode)>>]
       ELSE [p1 EXCEPT !.tupleCount = <<parseInt(b, 13)>>]

\* The parse of the other response packets on the bytes of buffer b: the
\* common tail of a response.
ResponsePacket_decode(pkt, b) ==
    LET responseLength == parseInt(b, 1)
        responseCode == parseInt(b, 9)
        p1 == [pkt EXCEPT !.casInfo = <<parseBytes(b, 5, CAS_INFO_SIZE)>>,
                          !.responseCode = <<responseCode>>]
        errorCode == parseInt(b, 13)
        text == parseNullTerminatedString(b, 17,
                                          responseLength - 2 * INT_SIZEOF)
    IN IF responseCode < 0
       THEN [p1 EXCEPT !.errorCode = <<errorCode>>,
                       !.errorMsg = <<resolved(text, errorCode)>>]
       ELSE p1

\* <packet of op>.parse(packetReader)
Decode(op, pkt, b) ==
    CASE op = "login" -> OpenDatabasePacket_decode(pkt, b)
      [] op = "fetch" -> FetchPacket_decode(pkt, b)
      [] OTHER -> ResponsePacket_decode(pkt, b)

\* The bytes the parse of op reads from buffer b.
bytesRead(op, b) ==
    LET responseLength == parseInt(b, 1)
        responseCode == parseInt(b, 9)
        head == DATA_LENGTH_SIZEOF + CAS_INFO_SIZE + INT_SIZEOF
        text == IF responseLength > 2 * INT_SIZEOF
                THEN responseLength - 2 * INT_SIZEOF ELSE 0
    IN CASE op = "login" ->
                IF responseCode < 0 THEN head
                ELSE head + BROKER_INFO_SIZEOF + INT_SIZEOF
         [] op = "fetch" ->
                IF responseCode # 0 THEN head + INT_SIZEOF + text
                ELSE head + INT_SIZEOF
         [] OTHER ->
                IF responseCode < 0 THEN head + INT_SIZEOF + text
                ELSE head

\* The 'data' listener of op: function (data) { ... }.  A PacketReader
\* that checks its reads throws when the parse reads past the end of the
\* buffer it was given.
listen(r, data, checked) ==
    LET responseData == r.responseData \o data
        expected ==
            IF /\ r.expectedResponseLength = INVALID_RESPONSE_LENGTH
               /\ Len(responseData) >= DATA_LENGTH_SIZEOF
            THEN getExpectedResponseLength([L |-> parseInt(responseData, 1)])
            ELSE r.expectedResponseLength
        r1 == [r EXCEPT !.responseData = responseData,
                        !.expectedResponseLength = expected]
        buffer == IF r.op \in AssembledOps THEN responseData ELSE data
    IN IF Len(responseData) # expected THEN r1
       ELSE IF checked /\ bytesRead(r.op, buffer) > Len(buffer)
            THEN [r1 EXCEPT !.buffer = buffer, !.threw = TRUE]
       ELSE [r1 EXCEPT !.buffer = buffer,
                       !.packet = Decode(r.op, r.packet, buffer),
                       !.completed = @ + 1]

\* CAS.CASFunctionCode.CAS_FC_CON_CLOSE
CAS_FC_CON_CLOSE == 7

\* CloseDatabasePacket.prototype.write with the length field counting the
\* CAS info as well.
CloseDatabasePacket_writeLong(casInfo) ==
    Int32BE(CAS_INFO_SIZE + 1) \o casInfo \o <<CAS_FC_CON_CLOSE>>

\* CloseDatabasePacket.prototype.write: the length of the body, the CAS
\* info the packet was constructed with, the function code.
CloseDatabasePacket_write(casInfo) ==
    Int32BE(1) \o casInfo \o <<CAS_FC_CON_CLOSE>>

\* The request operation op writes when self._CASInfo is casInfo.
Request(op, casInfo) ==
    IF op = "close" THEN CloseDatabasePacket_write(casInfo) ELSE <<>>

\* The CAS infos self._CASInfo may hold when operation op writes.
RequestCASInfos(op) == IF op = "close" THEN CasTokens ELSE {InitialCASInfo}

\* The listener of some operation is registered, its request written, and
\* the peer is about to send some response frame.
WireInit ==
    /\ NewSession
    /\ \E op \in WireOps :
           \E r \in Responses(op), c \in RequestCASInfos(op) :
               rx = [op |-> op, casInfo |-> c, request |-> Request(op, c),
                     response |-> r, frame |-> Encode(op, r),
                     sent |-> 0, responseData |-> <<>>,
                     expectedResponseLength |-> INVALID_RESPONSE_LENGTH,
                     packet |-> NewPacket(op), buffer |-> <<>>,
                     completed |-> 0, threw |-> FALSE, assigned |-> FALSE]

\* The socket emits 'data' with the next n bytes of the frame.
Read(n, checked) ==
    /\ ~rx.threw
    /\ rx.sent + n <= Len(rx.frame)
    /\ rx' = listen([rx EXCEPT !.sent = @ + n],
                    SubSeq(rx.frame, rx.sent + 1, rx.sent + n), checked)
    /\ UNCHANGED session

\* The values the application assigns to brokerInfo.dbType.
DbTypes == {9}

\* The application assigns to a field of the decoded broker info.
AssignBrokerInfo ==
    /\ rx.completed > 0
    /\ rx.packet.brokerInfo # Undefined
    /\ ~rx.assigned
    /\ \E v \in DbTypes :
           rx' = [rx EXCEPT
                    !.packet.brokerInfo = <<assignDbType(@[1], v)>>,
                    !.assigned = TRUE]
    /\ UNCHANGED session

\* The longest frame a peer sends.
MaxFrame == 24

WireNext ==
    \/ \E n \in 1..MaxFrame, checked \in BOOLEAN : Read(n, checked)
    \/ AssignBrokerInfo

WireSpec == WireInit /\ [][WireNext]_vars

----------------------------------------------------------------------------
(* Properties.                                                             *)

\* The entries this step appends to the log.
Appended == SubSeq(log', Len(log) + 1, Len(log'))

\* What a call that is rejected with err appends to the log: the 'error'
\* event and the invocation of its callback with err.
Rejection(op, err) ==
    <<Entry("event", NextId, EVENT_ERROR, err, 0),
      Entry("cb", NextId, op, err, 0)>>

\* C1: in every reachable state the flags connectionPending and queryPending
\* are not both true.
C1_FlagsNeverBothTrue == ~(connectionPending /\ queryPending)

\* C2: no request is written to a socket while a request written to it
\* before has not had its response received: a socket has at most one
\* unanswered request.
C2_OneRequestInFlight == \A k \in DOMAIN sockets : Len(sockets[k].wire) <= 1

\* A query() call has been accepted and its completion has not been called.
QueryInProgress ==
    \E c \in DOMAIN chains : chains[c].op = "query" /\ chains[c].step # 0

\* C3: a query() call made while an accepted query() has not completed is
\* rejected with the query-already-pending error, writes nothing, starts
\* nothing and adds no handle.
C3_OverlappingQueryRejected ==
    [][(QueryInProgress /\ calls' = Append(calls, "query")) =>
          /\ Appended = Rejection("query", ERROR_QUERY_ALREADY_PENDING)
          /\ UNCHANGED <<sockets, chains, ticks, queriesHandleList>>]_vars

\* C4: a connect() call made while connectionPending is true is rejected
\* with the connection-already-pending error, as an 'error' event and to
\* its callback; it opens no socket, writes nothing, starts nothing and
\* leaves connectionPending, connectionOpened, sessionId and the CAS info
\* as they were.
C4_SecondConnectRejected ==
    [][(connectionPending /\ calls' = Append(calls, "connect")) =>
          /\ Appended = Rejection("connect", ERROR_CONNECTION_ALREADY_PENDING)
          /\ UNCHANGED <<connectionPending, connectionOpened, sessionId,
                         CASInfo, socket, sockets, chains, ticks>>]_vars

\* A connect() call was rejected while the handshake of an earlier one was
\* under way, its client-info-exchange request written and unanswered.
C4_Witness ==
    /\ \E i \in DOMAIN log :
           log[i] = Entry("cb", log[i].id, "connect",
                          ERROR_CONNECTION_ALREADY_PENDING, 0)
    /\ connectionPending
    /\ \E k \in DOMAIN sockets :
           sockets[k].kind = "broker" /\ sockets[k].wire # <<>>

\* The operations whose completions C6 orders.
DataOps ==
    {"getEngineVersion", "query", "closeQuery", "commit",
     "setAutoCommitMode"}

\* The positions of the log where the callback of such an operation is
\* invoked with a response that was decoded for it.
Completions ==
    {i \in DOMAIN log : /\ log[i].t = "cb"
                        /\ calls[log[i].id] \in DataOps
                        /\ log[i].arg # 0}

\* C6: the callbacks of the operations are invoked in the order the
\* operations were called, and each one receives the decoded response to
\* its own request.
C6_CompletionsInOrder ==
    \A i, j \in Completions :
        /\ log[i].arg = log[i].id
        /\ i < j => log[i].id <= log[j].id

\* C7: the open-database request is written only after the rendezvous
\* response of the same connect was received with a port greater than 0,
\* and to a socket on that port; a rendezvous response with another port
\* completes the connect with the new-broker-port error.
C7_HandshakeOrdered ==
    /\ \A j \in DOMAIN log :
           (log[j].t = "write" /\ log[j].name = "opendb") =>
               \E i \in 1..(j - 1) : /\ log[i].t = "recv"
                                     /\ log[i].name = "rendezvous"
                                     /\ log[i].id = log[j].id
                                     /\ log[i].arg > 0
                                     /\ log[j].arg = log[i].arg
    /\ \A i \in DOMAIN log :
           (log[i].t = "recv" /\ log[i].name = "rendezvous"
                /\ log[i].arg <= 0) =>
               /\ i < Len(log)
               /\ log[i + 1] = Entry("event", log[i].id, EVENT_ERROR,
                                     ERROR_NEW_BROKER_PORT, 0)
               /\ ~connectionOpened

\* The step receives an open-database response whose response code is 0.
LoginSuccess ==
    /\ Appended # <<>>
    /\ Appended[1].t = "recv"
    /\ Appended[1].name = "login"
    /\ Appended[1].arg = 0

\* C8: when the open-database response is a success, connect completes
\* without error, sessionId is the session id of the response, the CAS info
\* is a token of the server, autoCommitMode is on exactly when bit 0 of
\* byte 3 of the CAS info is 1, connectionOpened is true and
\* connectionPending is false.
C8_LoginSuccess ==
    [][LoginSuccess =>
          /\ Appended[1].err = NoErr
          /\ sessionId' \in ServerSessionIds
          /\ CASInfo' \in CasTokens
          /\ autoCommitMode' = IF CASInfo'[4] % 2 = 1
                               THEN AUTOCOMMIT_ON ELSE AUTOCOMMIT_OFF
          /\ connectionOpened'
          /\ ~connectionPending']_vars

\* The step is an 'error' event of the socket of handshake step name of a
\* connect that has reached that step and not gone beyond it.
HandshakeError(c, name) ==
    /\ chains[c].op = "connect"
    /\ chains[c].step = (IF name = "rendezvous" THEN 1 ELSE 2)
    /\ Appended # <<>>
    /\ Appended[1] = Entry("sockerr", chains[c].id, name, SocketErr, 0)

\* C9: a socket error during rendezvous or login ends the connect with that
\* error, connectionOpened and connectionPending false, and no request is
\* written for that connect afterwards.
C9_HandshakeSocketError ==
    /\ [][\A c \in DOMAIN chains, name \in {"rendezvous", "login"} :
             HandshakeError(c, name) =>
                 /\ chains'[c].step = 0
                 /\ Len(Appended) >= 2
                 /\ Appended[2] = Entry("event", chains[c].id, EVENT_ERROR,
                                        SocketErr, 0)
                 /\ ~connectionOpened'
                 /\ ~connectionPending']_vars
    /\ [](\A i, j \in DOMAIN log :
             (i < j /\ log[i].t = "sockerr" /\ log[j].t = "write"
                  /\ log[j].name = "opendb") =>
                 log[i].id # log[j].id)

\* The positions of the log before j where a frame with a CAS info was
\* received.
ReceivedBefore(j) ==
    {i \in 1..(j - 1) : log[i].t = "recv" /\ log[i].cas # <<>>}

\* The CAS info of the latest frame received before position j.
LatestToken(j) ==
    log[CHOOSE i \in ReceivedBefore(j) :
            \A i2 \in ReceivedBefore(j) : i2 <= i].cas

\* A success response to an open-database request was received before j.
LoggedInBefore(j) ==
    \E i \in 1..(j - 1) :
        log[i].t = "recv" /\ log[i].name = "login" /\ log[i].arg = 0

\* Every request written after a login carries the CAS info of the latest
\* response received.
RequestsEchoLatestToken ==
    \A j \in DOMAIN log :
        (/\ log[j].t = "write"
         /\ log[j].name \notin {"clientinfo", "opendb"}
         /\ LoggedInBefore(j)) =>
            log[j].cas = LatestToken(j)

\* C11: the open-database request carries the initial CAS info, and every
\* request written after a login carries the CAS info of the latest
\* response received.
C11_RequestsCarryLatestToken ==
    /\ \A j \in DOMAIN log :
           (log[j].t = "write" /\ log[j].name = "opendb") =>
               log[j].cas = InitialCASInfo
    /\ RequestsEchoLatestToken

\* The handles of the entries of the session's query-handle list.
OpenHandles ==
    {queriesHandleList[i].handle : i \in DOMAIN queriesHandleList}

\* The requests written to socket k, answered or not, stay as they are.
NothingWritten ==
    /\ \A k \in DOMAIN sockets :
           /\ sockets'[k].wire = sockets[k].wire
           /\ sockets'[k].werr = sockets[k].werr
    /\ \A i \in DOMAIN Appended : Appended[i].t # "write"

\* C15: fetch for a handle that is not in the query-handle list fails with
\* the no-active-query error, as an 'error' event and to its callback,
\* writes no packet and leaves the handle list unchanged.
C15_FetchUnknownHandle ==
    [][(/\ calls' = Append(calls, "fetch")
        /\ \A h \in Handles : h \notin OpenHandles) =>
          /\ Appended = Rejection("fetch", ERROR_NO_ACTIVE_QUERY)
          /\ NothingWritten
          /\ UNCHANGED queriesHandleList]_vars

\* fetch(h) was rejected with the no-active-query error after closeQuery(h),
\* on a session whose socket to the CAS is open.
C15_Witness ==
    /\ \E i \in DOMAIN log :
           /\ log[i] = Entry("cb", log[i].id, "fetch",
                             ERROR_NO_ACTIVE_QUERY, 0)
           /\ \E n \in 1..(log[i].id - 1) : calls[n] = "closeQuery"
    /\ sockets[socket].kind = "cas"
    /\ sockets[socket].state = "open"

\* No execute has succeeded: the query-handle list has been empty
\* throughout.
NoHandleOpened ==
    \A i \in DOMAIN log :
        ~(log[i].t = "recv" /\ log[i].name = "query" /\ log[i].err = NoErr)

\* C17: closeQuery(h) removes h from the query-handle list and writes one
\* close-query request carrying h; for a handle that is not in the list the
\* list stays as it is and closeQuery completes without an error.
C17_CloseQuery ==
    /\ [][calls' = Append(calls, "closeQuery") =>
             \E h \in Handles :
                 /\ queriesHandleList' = spliceHandle(queriesHandleList, h)
                 /\ h \notin OpenHandles'
                 /\ h \notin OpenHandles => UNCHANGED queriesHandleList
                 /\ Len(Appended) = 1
                 /\ Appended[1].t = "write"
                 /\ Appended[1].name = "closeQuery"
                 /\ Appended[1].h = h]_vars
    /\ [](NoHandleOpened =>
             \A i \in DOMAIN log :
                 (log[i].t = "cb" /\ log[i].name = "closeQuery") =>
                     log[i].err = NoErr)

\* The step invokes the completion callback of close() call n.
CloseCompleted(n) ==
    \E i \in DOMAIN Appended :
        Appended[i].t = "cb" /\ Appended[i].name = "close"
            /\ Appended[i].id = n

\* Before position j of the log, close() call n wrote its close-database
\* request and, after that, received the response to it.
CloseDatabaseAcknowledged(n, j) ==
    \E w, r \in 1..(j - 1) :
        /\ w < r
        /\ log[w].t = "write" /\ log[w].name = "closeDatabase"
        /\ log[w].id = n
        /\ log[r].t = "recv" /\ log[r].name = "close" /\ log[r].id = n
        /\ log[r].arg = n

\* Every close-query request close() call n wrote before position j was
\* answered before j.
CloseQueriesAcknowledged(n, j) ==
    \A w \in 1..(j - 1) :
        (log[w].t = "write" /\ log[w].name = "closeQuery" /\ log[w].id = n)
            => \E r \in (w + 1)..(j - 1) :
                   /\ log[r].t = "recv" /\ log[r].name = "closeQuery"
                   /\ log[r].id = n

\* C18: close() writes its close-database request only after its
\* close-query requests were answered, and completes only after the
\* response to the close-database request, with the socket destroyed, the
\* three flags false and the query-handle list empty.
C18_CloseInOrder ==
    /\ [](\A j \in DOMAIN log :
             (log[j].t = "write" /\ log[j].name = "closeDatabase") =>
                 CloseQueriesAcknowledged(log[j].id, j))
    /\ [](\A j \in DOMAIN log :
             (log[j].t = "cb" /\ log[j].name = "close") =>
                 CloseDatabaseAcknowledged(log[j].id, j))
    /\ [][\A n \in 1..MaxCalls :
             CloseCompleted(n) =>
                 /\ sockets'[socket'].state = "destroyed"
                 /\ ~connectionOpened'
                 /\ ~connectionPending'
                 /\ ~queryPending'
                 /\ queriesHandleList' = <<>>]_vars

\* The step is a call of commit() or rollback().
Ends(op) == calls' = Append(calls, op)

\* What commit() or rollback() appends to the log when it completes at
\* once: the event _emitEvent emits without an error, and the invocation
\* of the callback without an error.
CompletedAtOnce(op) ==
    <<Entry("event", NextId, "null", NoErr, 0),
      Entry("cb", NextId, op, NoErr, 0)>>

\* C20: commit() and rollback() called with auto-commit on write nothing,
\* complete without an error and leave autoCommitMode, the handle list and
\* the three flags as they were; called with auto-commit off they write
\* one request and complete only on the response to it.
C20_CommitRollback ==
    /\ [][\A op \in {"commit", "rollback"} :
             /\ (Ends(op) /\ autoCommitMode = AUTOCOMMIT_ON) =>
                    /\ Appended = CompletedAtOnce(op)
                    /\ NothingWritten
                    /\ UNCHANGED <<autoCommitMode, queriesHandleList,
                                   connectionOpened, connectionPending,
                                   queryPending>>
             /\ (Ends(op) /\ autoCommitMode = AUTOCOMMIT_OFF) =>
                    /\ Len(Appended) = 1
                    /\ Appended[1].t = "write"
                    /\ Appended[1].name = op
                    /\ Appended[1].id = NextId]_vars
    /\ [](\A j \in DOMAIN log :
             (/\ log[j].t = "cb"
              /\ log[j].name \in {"commit", "rollback"}
              /\ \E w \in 1..(j - 1) :
                     log[w].t = "write" /\ log[w].id = log[j].id) =>
                 log[j].arg = log[j].id)

\* The log entries that are a set-auto-commit request written by call n.
ModeWrites(n) ==
    {j \in DOMAIN log : /\ log[j].t = "write"
                        /\ log[j].name = "setAutoCommitMode"
                        /\ log[j].id = n}

\* Call n completed without an error at log entry j.
SucceededAt(n, j) ==
    log[j].t = "cb" /\ log[j].id = n /\ log[j].err = NoErr

ModeCompletion(i) ==
    Appended[i].t = "cb" /\ Appended[i].name = "setAutoCommitMode"

\* C22: autoCommitMode changes only on an acknowledged set-auto-commit.  A
\* setAutoCommitMode call whose argument is not a boolean leaves
\* autoCommitMode as it was and its callback receives the validation error;
\* when a setAutoCommitMode(m) call completes without an error
\* autoCommitMode is m, and when it completes with an error autoCommitMode
\* keeps its value.
C22_ModeChangesOnAcknowledgement ==
    [][/\ SetAutoCommitMode("maybe") =>
              /\ UNCHANGED autoCommitMode
              /\ \E i \in DOMAIN Appended :
                     /\ ModeCompletion(i)
                     /\ Appended[i].err = ERROR_INPUT_VALIDATION
       /\ \A i \in DOMAIN Appended :
              ModeCompletion(i) =>
                  IF Appended[i].err = NoErr
                  THEN \A a \in DOMAIN log' :
                           (/\ log'[a].t = "write"
                            /\ log'[a].name = "setAutoCommitMode"
                            /\ log'[a].id = Appended[i].id) =>
                               autoCommitMode' = log'[a].m
                  ELSE UNCHANGED autoCommitMode]_vars

\* The events that report the success of operation op.
SuccessEvents(op) ==
    CASE op = "connect" -> {EVENT_CONNECTED}
      [] op = "query" -> {EVENT_QUERY_DATA_AVAILABLE}
      [] op = "getEngineVersion" -> {EVENT_ENGINE_VERSION_AVAILABLE}
      [] op = "fetch" -> {EVENT_FETCH_DATA_AVAILABLE,
                          EVENT_FETCH_NO_MORE_DATA_AVAILABLE}
      [] op = "closeQuery" -> {EVENT_QUERY_CLOSED}
      [] op = "close" -> {EVENT_CONNECTION_CLOSED}
      [] op = "commit" -> {EVENT_COMMIT_COMPLETED}
      [] op = "rollback" -> {EVENT_ROLLBACK_COMPLETED}
      [] op = "setAutoCommitMode" -> {EVENT_SET_AUTOCOMMIT_MODE_COMPLETED}

\* The events emitted for call n.
EventsOf(n) == {j \in DOMAIN log : log[j].t = "event" /\ log[j].id = n}

\* The step is a call rejected for invalid input: query with SQL text that
\* is empty, setAutoCommitMode with a mode that is not a boolean.
InvalidCall == Query("") \/ SetAutoCommitMode("maybe")

\* C24: the callback of a call receives an error exactly when an 'error'
\* event carrying that error is emitted for the call, and otherwise the
\* success event of the operation is emitted, never both; a call with
\* invalid input writes nothing and its callback receives the validation
\* error.
C24_CallbackAndEventAgree ==
    /\ [](\A j \in DOMAIN log :
             log[j].t = "cb" =>
                 IF log[j].err # NoErr
                 THEN /\ \E e \in EventsOf(log[j].id) :
                             /\ log[e].name = EVENT_ERROR
                             /\ log[e].err = log[j].err
                      /\ \A e \in EventsOf(log[j].id) :
                             log[e].name \notin SuccessEvents(log[j].name)
                 ELSE /\ \E e \in EventsOf(log[j].id) :
                             log[e].name \in SuccessEvents(log[j].name)
                      /\ \A e \in EventsOf(log[j].id) :
                             log[e].name # EVENT_ERROR)
    /\ [][InvalidCall =>
              /\ NothingWritten
              /\ \E i \in DOMAIN Appended :
                     /\ Appended[i].t = "cb"
                     /\ Appended[i].err = ERROR_INPUT_VALIDATION]_vars

\* The packet a listener of operation op decodes from frame b when the
\* frame arrives in a single read.
SingleRead(op, b) ==
    listen([op |-> op, responseData |-> <<>>,
            expectedResponseLength |-> INVALID_RESPONSE_LENGTH,
            packet |-> NewPacket(op), buffer |-> <<>>, completed |-> 0,
            threw |-> FALSE], b, TRUE).packet

\* C25: however the bytes of a response frame are split into reads, the
\* listener of every operation completes exactly when the last byte of the
\* frame has arrived, once, and has then decoded what it decodes when the
\* frame arrives in a single read.
C25_ReassembledFromAnyChunking ==
    /\ rx.sent < Len(rx.frame) => rx.completed = 0
    /\ rx.sent = Len(rx.frame) =>
           /\ rx.completed = 1
           /\ ~rx.assigned => rx.packet = SingleRead(rx.op, rx.frame)

\* The listener has decoded the whole frame of the response.
Decoded == rx.completed = 1 /\ rx.buffer = rx.frame /\ ~rx.assigned

\* The error message a decoder is to leave for the response r: the text of
\* r, or the name of the error code of r when the text is empty.
MessageOf(r) ==
    IF r.errorMsg = <<>>
    THEN Msg(<<>>, resolveErrorCode(r.errorCode))
    ELSE Msg(r.errorMsg, "")

\* C29: every decoder takes a negative response code as an error (it
\* decodes the error code and the error message, an empty message being
\* replaced by the name of the error code) and every other response code
\* as success (errorCode stays 0 and the fields of the packet are decoded:
\* the tuple count by the fetch decoder, the session id and the broker info
\* by the open-database decoder, which sets neither for a negative code).
C29_NegativeCodeMeansError ==
    Decoded =>
        IF rx.response.code < 0
        THEN /\ rx.packet.errorCode = <<rx.response.errorCode>>
             /\ rx.packet.errorMsg = <<MessageOf(rx.response)>>
             /\ rx.op = "login" =>
                    /\ rx.packet.brokerInfo = Undefined
                    /\ rx.packet.sessionId = Undefined
        ELSE /\ rx.packet.errorCode = <<0>>
             /\ rx.op = "fetch" =>
                    rx.packet.tupleCount = <<rx.response.tupleCount>>
             /\ rx.op = "login" =>
                    rx.packet.sessionId = <<rx.response.sessionId>>

\* The open-database decoder has decoded the whole frame of a response
\* whose code is 0.
OpenDatabaseDecoded ==
    /\ rx.op = "login"
    /\ rx.completed = 1
    /\ rx.buffer = rx.frame
    /\ rx.response.code = 0

\* C30: decoding an open-database response with code 0 recovers its
\* fields: the CAS info, the response code, dbType from byte 0 of the
\* broker info, statementPolling from byte 2, protocolVersion from byte 4,
\* and the session id; an assignment to a field of brokerInfo changes
\* nothing.
C30_OpenDatabaseDecoded ==
    OpenDatabaseDecoded =>
        /\ rx.packet.casInfo = <<rx.response.casInfo>>
        /\ rx.packet.responseCode = <<0>>
        /\ rx.packet.brokerInfo # Undefined
        /\ rx.packet.brokerInfo[1].dbType = rx.response.brokerInfo[1]
        /\ rx.packet.brokerInfo[1].statementPolling =
               rx.response.brokerInfo[3]
        /\ rx.packet.brokerInfo[1].protocolVersion =
               getProtocolVersion(rx.response.brokerInfo[5])
        /\ rx.packet.sessionId = <<rx.response.sessionId>>

\* An open-database response with code 0, a session id of more than one
\* byte and distinct broker-info bytes has been decoded, and the application
\* has assigned to brokerInfo.dbType.
C30_Witness ==
    /\ OpenDatabaseDecoded
    /\ rx.assigned
    /\ rx.response.sessionId > 255
    /\ rx.response.brokerInfo[1] # rx.response.brokerInfo[3]

\* The close-database response of the given length field and CAS info
\* whose response code is 0.
CloseDatabaseResponse(length, casInfo) ==
    Int32BE(length) \o casInfo \o Int32BE(0)

\* What the close-database decoder leaves for a response with CAS info
\* casInfo and response code 0.
CloseDatabaseDecoded(casInfo) ==
    [NewPacket("close") EXCEPT !.casInfo = <<casInfo>>,
                               !.responseCode = <<0>>,
                               !.errorCode = <<0>>,
                               !.errorMsg = <<Msg(<<>>, "")>>]

\* C31: the request close() writes is the length field 1, the four bytes
\* of the session's CAS info and the close-database function code; and the
\* close-database decoder, given a response of any length field with CAS
\* info c and response code 0, leaves casInfo = c, responseCode = 0,
\* errorCode = 0 and an empty errorMsg.
C31_CloseDatabaseRoundTrip ==
    /\ rx.op = "close" =>
           /\ Len(rx.request) = DATA_LENGTH_SIZEOF + CAS_INFO_SIZE + 1
           /\ parseInt(rx.request, 1) = 1
           /\ parseBytes(rx.request, 5, CAS_INFO_SIZE) = rx.casInfo
           /\ rx.request[9] = CAS_FC_CON_CLOSE
    /\ (rx.op = "close" /\ Decoded /\ rx.response.code = 0) =>
           rx.packet = CloseDatabaseDecoded(rx.response.casInfo)
    /\ \A length \in {0, INT_SIZEOF}, c \in CasTokens :
           ResponsePacket_decode(NewPacket("close"),
                                 CloseDatabaseResponse(length, c))
               = CloseDatabaseDecoded(c)

\* close() has written its request with a CAS info other than the one the
\* session starts with, and its listener has decoded a response whose code
\* is 0 and whose CAS info differs from that of the request.
C31_Witness ==
    /\ rx.op = "close"
    /\ Decoded
    /\ rx.response.code = 0
    /\ rx.casInfo # InitialCASInfo
    /\ rx.response.casInfo # rx.casInfo

\* The invocations of the completion callback of call n.
CallbacksOf(n) == {j \in DOMAIN log : log[j].t = "cb" /\ log[j].id = n}

\* Every request written has been answered and no task is still to start.
AllAnswered ==
    /\ ~crashed
    /\ ticks = <<>>
    /\ \A k \in DOMAIN sockets : sockets[k].wire = <<>> /\ ~sockets[k].werr

\* The step is a response arriving on a socket on which a call that has
\* completed has left a 'data' listener.
ResponseToCompletedCall ==
    \E k \in DOMAIN sockets :
        /\ Len(sockets'[k].wire) < Len(sockets[k].wire)
        /\ \E i \in DOMAIN sockets[k].dataL :
               CallbacksOf(sockets[k].dataL[i].id) # {}

\* C32: the completion callback of every call is invoked at most once, and
\* once when every request written has been answered; and a response that
\* arrives while a 'data' listener of a completed call is registered makes
\* no handler fail.
C32_CallbackExactlyOnce ==
    /\ [](\A n \in DOMAIN calls : Cardinality(CallbacksOf(n)) <= 1)
    /\ [](AllAnswered => \A n \in DOMAIN calls : CallbacksOf(n) # {})
    /\ [][ResponseToCompletedCall => ~crashed']_vars

\* The requests of the handshake and of the end of the session.
SessionRequests == {"clientinfo", "opendb", "closeDatabase"}

\* C33: a request other than those of the handshake (and the
\* close-database request, which close() writes after it has reset
\* connectionOpened) is written only by a step that starts with
\* connectionOpened true.
C33_NoRequestUnlessLoggedIn ==
    [][\A i \in DOMAIN Appended :
           (Appended[i].t = "write" /\ Appended[i].name \notin SessionRequests)
               => connectionOpened]_vars

====
